---- MODULE Spec2Model ----
(***************************************************************************)
(* A model of the I-765 monitor of src/examples/sample_run_3.py: the PDF   *)
(* locator with its two fetchers, the three extractors, the diff engines,  *)
(* ChangeDetector.detect, the two repositories, the notifier and           *)
(* MonitorOrchestrator.run.                                                *)
(*                                                                         *)
(* Conventions.  A Python Optional is a set with at most one element:      *)
(* None is {} and a present value v is {v}.  A Python dict with string     *)
(* keys is a set of <<key, value>> pairs with distinct keys.  A string     *)
(* that the code takes apart (a URL, an href, a text) is a sequence of     *)
(* tokens.                                                                 *)
(***************************************************************************)
EXTENDS Integers, Sequences, FiniteSets, TLC

VARIABLES
  pc,         \* pc[r]: the line MonitorOrchestrator.run is at in invocation r
  loc,        \* loc[r]: the position of find_pdf_url and of HttpFetcher.fetch
  vars_run,   \* vars_run[r]: the local variables of run
  trace,      \* trace[r]: what invocation r has done so far (observation only)
  stateFile,  \* <BASE_DIR>/state.json
  snapshots,  \* <BASE_DIR>/snapshots/<name>/{pdf.bin,text.txt,fields.json,metadata.json}
  clock,      \* the UTC wall clock, in ticks
  last,       \* the record of the most recent finished invocation (observation only)
  actions,    \* the list HandlerPipeline.execute is called with
  handlers,   \* HandlerPipeline.handlers: the registry, in registration order
  exec,       \* where execute is, what it has dispatched, the coroutines it made
  driver      \* the PlaywrightDriver: open or closed, and the operations performed

pipelineVars == <<actions, handlers, exec, driver>>

vars == <<pc, loc, vars_run, trace, stateFile, snapshots, clock, last, pipelineVars>>

----------------------------------------------------------------------------
(* Bounds of the model *)

\* the wall clock stops advancing at MaxClock ticks
MaxClock == 3
\* clock ticks per second: utcnow() is finer than the snapshot name
TicksPerSecond == 2

(* Config *)
\* the longest page, in anchors, the heuristics are tried on
MaxAnchors == 3

RETRIES == 3
BACKOFF == 2
FORM_URL == <<"https://www.uscis.gov", "/i-765">>

\* the invocations of MonitorOrchestrator.run that may be in progress
Runs == {1, 2}
\* the invocations a scheduler that runs one at a time uses
Serial == {1}

----------------------------------------------------------------------------
(* Optional values and dicts *)

None == {}
Some(x) == {x}
TheValue(o) == CHOOSE x \in o : TRUE

\* dict.get(k): None when the key is missing
MapGet(m, k) == {p[2] : p \in {q \in m : q[1] = k}}
MapKeys(m) == {p[1] : p \in m}
\* optional.get-with-default: o is the Optional value stored under a key
OrDefault(o, d) == IF o = None THEN d ELSE TheValue(o)

SetMin(S) == CHOOSE x \in S : \A y \in S : x <= y

----------------------------------------------------------------------------
(* HTML pages and the PDF locator's heuristics *)

\* str.lower() on the tokens an href is made of
Lower(tok) == IF tok = ".PDF" THEN ".pdf" ELSE tok

\* the CSS attribute selector [href$=".pdf"]: a case-sensitive suffix test
EndsWithPdf(href) == Len(href) > 0 /\ href[Len(href)] = ".pdf"

\* ".pdf" in href.lower()
ContainsPdfLower(href) == \E i \in 1..Len(href) : Lower(href[i]) = ".pdf"

Origins == {"https://www.uscis.gov", "https://cdn.example.com"}

\* urllib.parse.urljoin for absolute and root-relative references
urljoin(base, href) ==
  IF Len(href) > 0 /\ href[1] \in Origins THEN href ELSE <<base[1]>> \o href

\* an <a> element is its Optional href attribute; a page is its anchors in
\* document order.  kind "absent" is a fetch that returned None, kind "empty"
\* a response with an empty body.
Anchors(html) == html.anchors
HasHref(a) == a # None

\* the first anchor, in document order, among those at the positions hits
FirstHref(anchors, hits) ==
  IF hits = {} THEN None ELSE Some(TheValue(anchors[SetMin(hits)]))

\* soup.select_one('a[href$=".pdf"]')
ExactHits(anchors) ==
  {i \in 1..Len(anchors) : HasHref(anchors[i]) /\ EndsWithPdf(TheValue(anchors[i]))}

\* the anchors the scan of soup.find_all("a", href=True) stops at
LooseHits(anchors) ==
  {i \in 1..Len(anchors) : HasHref(anchors[i]) /\ ContainsPdfLower(TheValue(anchors[i]))}

\* a variant with the scan alone: the first href that contains ".pdf"
extract_pdf_scan_only(html, base_url) ==
  LET link == FirstHref(Anchors(html), LooseHits(Anchors(html)))
  IN  IF link # None THEN Some(urljoin(base_url, TheValue(link))) ELSE None
extract_pdf_from_html(html, base_url) ==
  LET a    == FirstHref(Anchors(html), ExactHits(Anchors(html)))
      link == FirstHref(Anchors(html), LooseHits(Anchors(html)))
  IN  IF a # None THEN Some(urljoin(base_url, TheValue(a)))
      ELSE IF link # None THEN Some(urljoin(base_url, TheValue(link)))
      ELSE None

\* Python truthiness of the Optional[str] a fetcher returns
Truthy(html) == html.kind = "html"

AbsentHtml == [kind |-> "absent", anchors |-> <<>>]
EmptyHtml  == [kind |-> "empty", anchors |-> <<>>]
Page(anchors) == [kind |-> "html", anchors |-> anchors]

HrefAbout == <<"/about">>
HrefExact == <<"/sites/default/files/", "i-765", ".pdf">>
HrefUpper == <<"/archive/", "i-765-old", ".PDF">>
HrefQuery == <<"https://cdn.example.com", "/i-765", ".pdf", "?v=2">>
HrefCdn   == <<"https://cdn.example.com", "/i-765", ".pdf">>

\* the pages the monitored site may serve
Pages ==
  { EmptyHtml,
    Page(<<Some(HrefAbout), None>>),
    Page(<<Some(HrefAbout), Some(HrefExact)>>),
    Page(<<Some(HrefUpper), Some(HrefExact)>>),
    Page(<<None, Some(HrefQuery), Some(HrefUpper)>>) }

----------------------------------------------------------------------------
(* PDF byte buffers.  A buffer is an index into DocTable, which tells what  *)
(* the PDF libraries find in those bytes.                                   *)

TextA == <<"Form I-765", "Edition 01/20/25">>

FieldName == <<<<"/T", "name">>, <<"/FT", "/Tx">>>>
FieldSsn  == <<<<"/T", "ssn">>, <<"/FT", "/Tx">>>>
\* the same field as FieldName with its properties stored in another order
FieldNameReordered == <<<<"/FT", "/Tx">>, <<"/T", "name">>>>
\* a widget without a /T entry
FieldNoName == <<<<"/FT", "/Btn">>>>

DocTable ==
  << \* revision A
     [pike |-> TRUE, docinfo |-> {<<"/ModDate", "D1">>, <<"/Title", "I-765">>},
      acro |-> Some(<<FieldName>>), plumber |-> TRUE, pages |-> <<Some(TextA)>>],
     \* revision B: new ModDate, new text, one more field
     [pike |-> TRUE, docinfo |-> {<<"/ModDate", "D2">>, <<"/Title", "I-765">>},
      acro |-> Some(<<FieldNameReordered, FieldNoName, FieldSsn>>), plumber |-> TRUE,
      pages |-> <<Some(<<"Form I-765", "Edition 08/21/25">>), None, Some(<<"Part 2">>)>>],
     \* revision A saved again: other bytes, the same ModDate, text and fields
     [pike |-> TRUE, docinfo |-> {<<"/ModDate", "D1">>, <<"/Title", "I-765">>},
      acro |-> Some(<<FieldName>>), plumber |-> TRUE, pages |-> <<Some(TextA)>>],
     \* a PDF with no /ModDate entry and no /AcroForm
     [pike |-> TRUE, docinfo |-> {<<"/Title", "I-765">>},
      acro |-> None, plumber |-> TRUE, pages |-> <<Some(TextA)>>],
     \* bytes that are no PDF (the body of an HTTP error page)
     [pike |-> FALSE, docinfo |-> {}, acro |-> None, plumber |-> FALSE, pages |-> <<>>],
     \* a PDF pikepdf reads and pdfplumber does not
     [pike |-> TRUE, docinfo |-> {<<"/ModDate", "D2">>},
      acro |-> Some(<<FieldSsn, FieldName>>), plumber |-> FALSE, pages |-> <<>>] >>

PdfBytes == 1..Len(DocTable)
\* the body of an unsuccessful HTTP response
ErrorBody == CHOOSE b \in PdfBytes : ~DocTable[b].pike /\ ~DocTable[b].plumber

\* hashlib.sha256(pdf_bytes).hexdigest(): distinct buffers have distinct digests
Sha256(pdf_bytes) == <<"sha256", pdf_bytes>>

----------------------------------------------------------------------------
(* Extraction layer *)

MetadataExtract(pdf_bytes) ==
  IF DocTable[pdf_bytes].pike THEN DocTable[pdf_bytes].docinfo ELSE {}

RECURSIVE JoinPages(_)
JoinPages(pages) ==
  IF pages = <<>> THEN <<>>
  ELSE OrDefault(Head(pages), <<>>) \o JoinPages(Tail(pages))

TextExtract(pdf_bytes) ==
  IF DocTable[pdf_bytes].plumber THEN JoinPages(DocTable[pdf_bytes].pages) ELSE <<>>

\* obj.get(k) on a field object
ObjGet(obj, k) == {obj[i][2] : i \in {j \in 1..Len(obj) : obj[j][1] = k}}

RECURSIVE CollectFields(_, _)
CollectFields(objs, fields) ==
  IF objs = <<>> THEN fields
  ELSE LET obj  == Head(objs)
           name == ObjGet(obj, "/T")
       IN  IF name # None
           THEN CollectFields(Tail(objs),
                  {p \in fields : p[1] # TheValue(name)}
                    \cup {<<TheValue(name), [raw |-> obj]>>})
           ELSE CollectFields(Tail(objs), fields)

FieldExtract(pdf_bytes) ==
  IF DocTable[pdf_bytes].pike /\ DocTable[pdf_bytes].acro # None
  THEN CollectFields(TheValue(DocTable[pdf_bytes].acro), {})
  ELSE {}

----------------------------------------------------------------------------
(* Diff layer *)

RECURSIVE CommonPrefix(_, _)
CommonPrefix(a, b) ==
  IF a = <<>> \/ b = <<>> \/ Head(a) # Head(b) THEN 0
  ELSE 1 + CommonPrefix(Tail(a), Tail(b))

Mark(sign, lines) == [i \in 1..Len(lines) |-> <<sign, lines[i]>>]

\* difflib.unified_diff joined with "": nothing for equal inputs, else the two
\* file headers, a hunk header and the lines kept, removed and added
TextDiff(old, new) ==
  IF old = new THEN <<>>
  ELSE LET k == CommonPrefix(old, new)
       IN  <<"---", "+++", "@@">>
             \o Mark(" ", SubSeq(old, 1, k))
             \o Mark("-", SubSeq(old, k + 1, Len(old)))
             \o Mark("+", SubSeq(new, k + 1, Len(new)))

\* the field names that occur, in lexicographic order
NameOrder == <<"dob", "name", "ssn">>
Rank(n) == CHOOSE i \in 1..Len(NameOrder) : NameOrder[i] = n

RECURSIVE Sorted(_)
Sorted(S) ==
  IF S = {} THEN <<>>
  ELSE LET m == CHOOSE x \in S : \A y \in S : Rank(x) <= Rank(y)
       IN  <<m>> \o Sorted(S \ {m})

\* json.dumps(record, sort_keys=True): the serialization does not depend on the
\* order of the keys in the raw property bag
\* a variant that serializes the property bag in the order it is stored in
JsonUnsorted(record) == record.raw
JsonSorted(record) == {record.raw[i] : i \in 1..Len(record.raw)}

FieldDiff(old, new) ==
  [added    |-> Sorted(MapKeys(new) \ MapKeys(old)),
   removed  |-> Sorted(MapKeys(old) \ MapKeys(new)),
   modified |-> {<<key, [old |-> TheValue(MapGet(old, key)),
                         new |-> TheValue(MapGet(new, key))]>> :
                   key \in {k \in MapKeys(old) \cap MapKeys(new) :
                              JsonSorted(TheValue(MapGet(old, k)))
                                # JsonSorted(TheValue(MapGet(new, k)))}}]

----------------------------------------------------------------------------
(* Application layer: ChangeDetector.detect *)

\* the empty dict StateRepository.load returns when there is no state file
EmptyDict ==
  [hash |-> None, metadata |-> None, text |-> None,
   fields |-> None, reasons |-> None, diff |-> None]

EmptyDiff == [text_diff |-> None, field_diff |-> None]

\* a variant that reads the key without its slash
ModDateDiffersWrongKey(prev_state, metadata) ==
  MapGet(OrDefault(prev_state.metadata, {}), "ModDate") # MapGet(metadata, "ModDate")
ModDateDiffers(prev_state, metadata) ==
  MapGet(OrDefault(prev_state.metadata, {}), "/ModDate") # MapGet(metadata, "/ModDate")

\* a variant that takes a missing previous hash for "nothing to compare"
HashDiffersIfKnown(prev_state, new_hash) ==
  prev_state.hash # None /\ prev_state.hash # Some(new_hash)
HashDiffers(prev_state, new_hash) == prev_state.hash # Some(new_hash)

\* a variant where the hash check is an elif of the ModDate check
ReasonsElif(prev_state, metadata, new_hash) ==
  IF ModDateDiffers(prev_state, metadata) THEN <<"ModDate change">>
  ELSE IF HashDiffers(prev_state, new_hash) THEN <<"hash change">>
  ELSE <<>>
\* a variant that checks the hash first
ReasonsHashFirst(prev_state, metadata, new_hash) ==
  (IF HashDiffers(prev_state, new_hash) THEN <<"hash change">> ELSE <<>>)
    \o (IF ModDateDiffers(prev_state, metadata) THEN <<"ModDate change">> ELSE <<>>)
Reasons(prev_state, metadata, new_hash) ==
  (IF ModDateDiffers(prev_state, metadata) THEN <<"ModDate change">> ELSE <<>>)
    \o (IF HashDiffers(prev_state, new_hash) THEN <<"hash change">> ELSE <<>>)

\* a variant that computes the two diffs whether or not anything changed
DiffDataAlways(changed, prev_state, text, fields) ==
  [text_diff  |-> Some(TextDiff(OrDefault(prev_state.text, <<>>), text)),
   field_diff |-> Some(FieldDiff(OrDefault(prev_state.fields, {}), fields))]
\* diff_data: filled only when changed
DiffData(changed, prev_state, text, fields) ==
  IF changed
  THEN [text_diff  |-> Some(TextDiff(OrDefault(prev_state.text, <<>>), text)),
        field_diff |-> Some(FieldDiff(OrDefault(prev_state.fields, {}), fields))]
  ELSE EmptyDiff

detect(prev_state, pdf_bytes) ==
  LET new_hash == Sha256(pdf_bytes)
      metadata == MetadataExtract(pdf_bytes)
      text     == TextExtract(pdf_bytes)
      fields   == FieldExtract(pdf_bytes)
      changed  == ModDateDiffers(prev_state, metadata) \/ HashDiffers(prev_state, new_hash)
  IN  [changed |-> changed,
       data    |-> [hash     |-> Some(new_hash),
                    metadata |-> Some(metadata),
                    text     |-> Some(text),
                    fields   |-> Some(fields),
                    reasons  |-> Some(Reasons(prev_state, metadata, new_hash)),
                    diff     |-> Some(DiffData(changed, prev_state, text, fields))]]

----------------------------------------------------------------------------
(* Storage layer *)

\* state.json: absent, holding a DocumentState, or cut to an empty file by an
\* open(path, "w") whose json.dump never came.  json.dump and json.load of a
\* dict of strings, lists and dicts give back the dict that was written.
NoStateFile == [status |-> "absent", content |-> EmptyDict]
TruncatedStateFile == [status |-> "corrupt", content |-> EmptyDict]
\* a variant that leaves the metadata out of the file
WrittenStateFileNoMetadata(state) ==
  [status |-> "ok", content |-> [state EXCEPT !.metadata = None]]
WrittenStateFile(state) == [status |-> "ok", content |-> state]

\* datetime.utcnow().strftime("%Y%m%dT%H%M%SZ"): the clock cut to whole seconds
StrfTime(t) == t \div TicksPerSecond

SnapshotNames == 0..StrfTime(MaxClock)

NoFolder == [pdf |-> None, text |-> None, fields |-> None, metadata |-> None]

\* SnapshotRepository.save_snapshot: makedirs(folder, exist_ok=True), then each
\* of the four files is opened for writing, which replaces what it held
save_snapshot(store, name, pdf_bytes, text, fields, metadata) ==
  [store EXCEPT ![name] = [pdf |-> Some(pdf_bytes), text |-> Some(text),
                           fields |-> Some(fields), metadata |-> Some(metadata)]]

----------------------------------------------------------------------------
(* The environment of one invocation *)

\* what the fallback fetcher returns for the page: the markup of the rendered
\* page, or AbsentHtml when Playwright is unavailable or fails
FallbackAnswers == (Pages \ {EmptyHtml}) \cup {AbsentHtml}

\* the buffers the PDF URL serves with status 200
Served == {1, 2, 3}

\* requests.get(pdf_url): a connection error, or a response with a body
Responses ==
  {[status |-> "error", content |-> ErrorBody], [status |-> "404", content |-> ErrorBody]}
    \cup {[status |-> "200", content |-> b] : b \in Served}

\* the outcome of the webhook POST: "off" when Config.WEBHOOK_URL is empty
Posts == {"off", "ok", "failed"}

----------------------------------------------------------------------------
(* The state of an invocation *)

LocIdle == [pwPage |-> AbsentHtml, fetcher |-> 0, attempt |-> 0]

NoLocals ==
  [pdf_url |-> None, pdf_bytes |-> None, prev_state |-> EmptyDict,
   changed |-> None, data |-> EmptyDict, name |-> None]

\* older: the invocations that had downloaded before this one did; inflight:
\* those of them that were not over then; stopped: the line a crash came before
NoTrace ==
  [calls |-> <<>>, slept |-> <<>>, downloads |-> <<>>, loads |-> 0,
   snapWrites |-> 0, stateWrites |-> 0, notified |-> <<>>, posts |-> <<>>,
   older |-> {}, inflight |-> {}, stopped |-> None]

\* last.detected when an invocation has crashed: what the last detection saw
\* no longer tells what is on the disk
Lost == Some(0)

NoRun ==
  [result |-> "none", pdf_bytes |-> None, changed |-> None,
   snapWrites |-> 0, stateWrites |-> 0, detected |-> None, stopped |-> None]

\* no pipeline has been made: the monitor of sample_run_3 uses none
NoExec == [pc |-> "idle", i |-> 0, dispatched |-> <<>>, coroutines |-> <<>>]
NoDriver == [open |-> FALSE, ops |-> <<>>]
PipelineIdle ==
  /\ actions = <<>>
  /\ handlers = <<>>
  /\ exec = NoExec
  /\ driver = NoDriver

Running(r) == pc[r] \notin {"idle", "returned", "raised", "crashed"}
Ended(r) == pc[r] \in {"returned", "raised", "crashed"}

Init ==
  /\ pc = [r \in Runs |-> "idle"]
  /\ loc = [r \in Runs |-> LocIdle]
  /\ vars_run = [r \in Runs |-> NoLocals]
  /\ trace = [r \in Runs |-> NoTrace]
  /\ stateFile = NoStateFile
  /\ snapshots = [n \in SnapshotNames |-> NoFolder]
  /\ clock = 0
  /\ last = NoRun
  /\ PipelineIdle

----------------------------------------------------------------------------
(* Notification layer *)

RECURSIVE Join(_, _)
\* sep.join(items)
Join(sep, items) ==
  IF Len(items) <= 1 THEN items
  ELSE <<Head(items), sep>> \o Join(sep, Tail(items))

\* Notifier.notify: the message is printed; with a webhook URL it is POSTed,
\* and a failure of the POST is swallowed
Notify(t, message, post) ==
  [t EXCEPT !.notified = Append(@, message),
            !.posts = IF post = "off" THEN @ ELSE Append(@, post)]

----------------------------------------------------------------------------
(* Fetching layer: PdfLocator.find_pdf_url and the two fetchers *)

\* what a fetch call gave, as find_pdf_url sees it; trace.calls keeps, for each
\* call, the fetcher, this outcome and the value returned (AbsentHtml when the
\* call raised)
Outcome(html) == IF Truthy(html) THEN "html" ELSE html.kind

\* a variant in which the first HTML decides: no anchor in it ends the search
AfterFetchFirstHtml(r, html, t) ==
  LET pdf_url == IF Truthy(html) THEN extract_pdf_from_html(html, FORM_URL) ELSE None
  IN  IF pdf_url # None
      THEN /\ pc' = [pc EXCEPT ![r] = "fetching"]
           /\ vars_run' = [vars_run EXCEPT ![r].pdf_url = pdf_url]
           /\ loc' = loc
           /\ trace' = [trace EXCEPT ![r] = t]
      ELSE IF loc[r].fetcher = 1 /\ ~Truthy(html)
      THEN /\ loc' = [loc EXCEPT ![r].fetcher = 2]
           /\ trace' = [trace EXCEPT ![r] = t]
           /\ UNCHANGED <<pc, vars_run>>
      ELSE /\ pc' = [pc EXCEPT ![r] = "notify_missing"]
           /\ trace' = [trace EXCEPT ![r] = t]
           /\ UNCHANGED <<loc, vars_run>>
\* find_pdf_url after fetcher number loc[r].fetcher has returned html
AfterFetch(r, html, t) ==
  LET pdf_url == IF Truthy(html) THEN extract_pdf_from_html(html, FORM_URL) ELSE None
  IN  IF pdf_url # None
      THEN /\ pc' = [pc EXCEPT ![r] = "fetching"]
           /\ vars_run' = [vars_run EXCEPT ![r].pdf_url = pdf_url]
           /\ loc' = loc
           /\ trace' = [trace EXCEPT ![r] = t]
      ELSE IF loc[r].fetcher = 1
      THEN /\ loc' = [loc EXCEPT ![r].fetcher = 2]
           /\ trace' = [trace EXCEPT ![r] = t]
           /\ UNCHANGED <<pc, vars_run>>
      ELSE /\ pc' = [pc EXCEPT ![r] = "notify_missing"]
           /\ trace' = [trace EXCEPT ![r] = t]
           /\ UNCHANGED <<loc, vars_run>>

\* run is called: find_pdf_url starts with the first fetcher
StartRun(r) ==
  /\ pc[r] = "idle"
  /\ \E page \in FallbackAnswers :
       loc' = [loc EXCEPT ![r] = [pwPage |-> page, fetcher |-> 1, attempt |-> 1]]
  /\ pc' = [pc EXCEPT ![r] = "locating"]
  /\ UNCHANGED <<vars_run, trace, stateFile, snapshots, clock, last, pipelineVars>>

\* invocations do not overlap
Start(r) ==
  /\ \A q \in Runs : pc[q] = "idle"
  /\ StartRun(r)

\* a variant that gives up one attempt later
HttpAttemptFailsLate(r) ==
  /\ pc[r] = "locating"
  /\ loc[r].fetcher = 1
  /\ LET attempt == loc[r].attempt
         t == [trace[r] EXCEPT !.calls = Append(@, <<"http", "error", AbsentHtml>>)]
     IN  IF attempt = RETRIES + 1
         THEN /\ pc' = [pc EXCEPT ![r] = "raised"]
              /\ trace' = [trace EXCEPT ![r] = t]
              /\ UNCHANGED <<loc, vars_run>>
         ELSE /\ loc' = [loc EXCEPT ![r].attempt = attempt + 1]
              /\ trace' = [trace EXCEPT ![r] = [t EXCEPT !.slept = Append(@, BACKOFF ^ attempt)]]
              /\ UNCHANGED <<pc, vars_run>>
  /\ UNCHANGED <<stateFile, snapshots, clock, last, pipelineVars>>
\* one attempt of HttpFetcher.fetch: requests.get or raise_for_status raises
HttpAttemptFails(r) ==
  /\ pc[r] = "locating"
  /\ loc[r].fetcher = 1
  /\ LET attempt == loc[r].attempt
         t == [trace[r] EXCEPT !.calls = Append(@, <<"http", "error", AbsentHtml>>)]
     IN  IF attempt = RETRIES
         THEN /\ pc' = [pc EXCEPT ![r] = "raised"]
              /\ trace' = [trace EXCEPT ![r] = t]
              /\ UNCHANGED <<loc, vars_run>>
         ELSE /\ loc' = [loc EXCEPT ![r].attempt = attempt + 1]
              /\ trace' = [trace EXCEPT ![r] = [t EXCEPT !.slept = Append(@, BACKOFF ^ attempt)]]
              /\ UNCHANGED <<pc, vars_run>>
  /\ UNCHANGED <<stateFile, snapshots, clock, last, pipelineVars>>

\* one attempt of HttpFetcher.fetch: the response text is returned
HttpAttemptSucceeds(r) ==
  /\ pc[r] = "locating"
  /\ loc[r].fetcher = 1
  /\ \E html \in Pages :
       AfterFetch(r, html, [trace[r] EXCEPT !.calls = Append(@, <<"http", Outcome(html), html>>)])
  /\ UNCHANGED <<stateFile, snapshots, clock, last, pipelineVars>>

\* PlaywrightFetcher.fetch
PlaywrightFetch(r) ==
  /\ pc[r] = "locating"
  /\ loc[r].fetcher = 2
  /\ AfterFetch(r, loc[r].pwPage,
                [trace[r] EXCEPT !.calls = Append(@, <<"playwright", Outcome(loc[r].pwPage),
                                                       loc[r].pwPage>>)])
  /\ UNCHANGED <<stateFile, snapshots, clock, last, pipelineVars>>

----------------------------------------------------------------------------
(* MonitorOrchestrator.run *)

NotifyMissing(r) ==
  /\ pc[r] = "notify_missing"
  /\ \E post \in Posts :
       trace' = [trace EXCEPT ![r] = Notify(@, <<"PDF not found">>, post)]
  /\ pc' = [pc EXCEPT ![r] = "returned"]
  /\ UNCHANGED <<loc, vars_run, stateFile, snapshots, clock, last, pipelineVars>>

\* requests.get(pdf_url).content; find_pdf_url is over
Download(r) ==
  /\ pc[r] = "fetching"
  /\ \E resp \in Responses :
       /\ trace' = [trace EXCEPT
                      ![r].downloads = Append(@, resp.status),
                      ![r].calls = <<>>, ![r].slept = <<>>,
                      ![r].older = {q \in Runs \ {r} : trace[q].downloads # <<>>},
                      ![r].inflight = {q \in Runs \ {r} :
                                         trace[q].downloads # <<>> /\ ~Ended(q)}]
       /\ IF resp.status = "error"
          THEN /\ pc' = [pc EXCEPT ![r] = "raised"]
               /\ UNCHANGED vars_run
          ELSE /\ pc' = [pc EXCEPT ![r] = "loading"]
               /\ vars_run' = [vars_run EXCEPT ![r].pdf_bytes = Some(resp.content)]
  /\ loc' = [loc EXCEPT ![r] = LocIdle]
  /\ UNCHANGED <<stateFile, snapshots, clock, last, pipelineVars>>

\* StateRepository.load
LoadState(r) ==
  /\ pc[r] = "loading"
  /\ trace' = [trace EXCEPT ![r].loads = @ + 1]
  /\ IF stateFile.status = "corrupt"
     THEN /\ pc' = [pc EXCEPT ![r] = "raised"]
          /\ UNCHANGED vars_run
     ELSE /\ pc' = [pc EXCEPT ![r] = "detecting"]
          /\ vars_run' = [vars_run EXCEPT ![r].prev_state = stateFile.content]
  /\ UNCHANGED <<loc, stateFile, snapshots, clock, last, pipelineVars>>

\* a variant that goes on to persist whatever detect returned
DetectThenPersist(r) ==
  /\ pc[r] = "detecting"
  /\ LET res == detect(vars_run[r].prev_state, TheValue(vars_run[r].pdf_bytes))
     IN  /\ vars_run' = [vars_run EXCEPT ![r].changed = Some(res.changed),
                                         ![r].data = res.data]
         /\ pc' = [pc EXCEPT ![r] = "snapshot"]
  /\ UNCHANGED <<loc, trace, stateFile, snapshots, clock, last, pipelineVars>>
\* detect is called and run returns when nothing changed
Detect(r) ==
  /\ pc[r] = "detecting"
  /\ LET res == detect(vars_run[r].prev_state, TheValue(vars_run[r].pdf_bytes))
     IN  /\ vars_run' = [vars_run EXCEPT ![r].changed = Some(res.changed),
                                         ![r].data = res.data]
         /\ pc' = [pc EXCEPT ![r] = IF res.changed THEN "snapshot" ELSE "returned"]
  /\ UNCHANGED <<loc, trace, stateFile, snapshots, clock, last, pipelineVars>>

\* the name is taken from the clock and the snapshot is saved under it
SaveSnapshot(r) ==
  /\ pc[r] = "snapshot"
  /\ LET name == StrfTime(clock)
         data == vars_run[r].data
     IN  /\ vars_run' = [vars_run EXCEPT ![r].name = Some(name)]
         /\ snapshots' = save_snapshot(snapshots, name, TheValue(vars_run[r].pdf_bytes),
                                       TheValue(data.text), TheValue(data.fields),
                                       TheValue(data.metadata))
  /\ trace' = [trace EXCEPT ![r].snapWrites = @ + 1]
  /\ pc' = [pc EXCEPT ![r] = "state_open"]
  /\ UNCHANGED <<loc, stateFile, clock, last, pipelineVars>>

\* StateRepository.save: open(path, "w") empties the file ...
StateOpen(r) ==
  /\ pc[r] = "state_open"
  /\ stateFile' = TruncatedStateFile
  /\ trace' = [trace EXCEPT ![r].stateWrites = @ + 1]
  /\ pc' = [pc EXCEPT ![r] = "state_dump"]
  /\ UNCHANGED <<loc, vars_run, snapshots, clock, last, pipelineVars>>

\* a variant that writes back the state that was loaded
StateDumpPrev(r) ==
  /\ pc[r] = "state_dump"
  /\ stateFile' = WrittenStateFile(vars_run[r].prev_state)
  /\ pc' = [pc EXCEPT ![r] = "notify_change"]
  /\ UNCHANGED <<loc, vars_run, trace, snapshots, clock, last, pipelineVars>>

\* a variant in which json.dump writes nothing
StateDumpNothing(r) ==
  /\ pc[r] = "state_dump"
  /\ pc' = [pc EXCEPT ![r] = "notify_change"]
  /\ UNCHANGED <<loc, vars_run, trace, stateFile, snapshots, clock, last, pipelineVars>>
\* ... and json.dump writes the new state
StateDump(r) ==
  /\ pc[r] = "state_dump"
  /\ stateFile' = WrittenStateFile(vars_run[r].data)
  /\ pc' = [pc EXCEPT ![r] = "notify_change"]
  /\ UNCHANGED <<loc, vars_run, trace, snapshots, clock, last, pipelineVars>>

Summary(data) == <<"I-765 Updated: ">> \o Join(", ", TheValue(data.reasons))

\* a variant in which a failed POST is not swallowed
NotifyChangePostRaises(r) ==
  /\ pc[r] = "notify_change"
  /\ \E post \in Posts :
       /\ trace' = [trace EXCEPT ![r] = Notify(@, Summary(vars_run[r].data), post)]
       /\ pc' = [pc EXCEPT ![r] = IF post = "failed" THEN "raised" ELSE "returned"]
  /\ UNCHANGED <<loc, vars_run, stateFile, snapshots, clock, last, pipelineVars>>
\* summary is built and the notifier is called
NotifyChange(r) ==
  /\ pc[r] = "notify_change"
  /\ \E post \in Posts :
       trace' = [trace EXCEPT ![r] = Notify(@, Summary(vars_run[r].data), post)]
  /\ pc' = [pc EXCEPT ![r] = "returned"]
  /\ UNCHANGED <<loc, vars_run, stateFile, snapshots, clock, last, pipelineVars>>

\* the lines of run from which a crash leaves something to see: a crash before
\* save_snapshot leaves the disk as a crash at any earlier line does
CrashPoints == {"snapshot", "state_open", "state_dump", "notify_change"}

\* the process dies, or a write to the disk fails, before the next line of run
Crash(r) ==
  /\ pc[r] \in CrashPoints
  /\ pc' = [pc EXCEPT ![r] = "crashed"]
  /\ trace' = [trace EXCEPT ![r].stopped = Some(pc[r])]
  /\ UNCHANGED <<loc, vars_run, stateFile, snapshots, clock, last, pipelineVars>>

\* the caller gets the return, or the exception, of run; what the invocation
\* did is kept in last when it returned, and its bytes and the line it stopped
\* before when it crashed between the two writes
Exit(r) ==
  /\ Ended(r)
  /\ LET detected == IF pc[r] = "crashed" \/ last.detected = Lost THEN Lost
                     ELSE IF vars_run[r].changed # None THEN vars_run[r].pdf_bytes
                     ELSE last.detected
     IN  last' = IF pc[r] = "returned"
                 THEN [result      |-> "returned",
                       pdf_bytes   |-> vars_run[r].pdf_bytes,
                       changed     |-> vars_run[r].changed,
                       snapWrites  |-> trace[r].snapWrites,
                       stateWrites |-> trace[r].stateWrites,
                       detected    |-> detected,
                       stopped     |-> None]
                 ELSE IF trace[r].stopped \in {Some("state_open"), Some("state_dump")}
                 THEN [NoRun EXCEPT !.result = "crashed", !.detected = detected,
                                    !.pdf_bytes = vars_run[r].pdf_bytes,
                                    !.stopped = trace[r].stopped]
                 ELSE [NoRun EXCEPT !.result = pc[r], !.detected = detected]
  /\ pc' = [pc EXCEPT ![r] = "idle"]
  /\ loc' = [loc EXCEPT ![r] = LocIdle]
  /\ vars_run' = [vars_run EXCEPT ![r] = NoLocals]
  /\ trace' = [trace EXCEPT ![r] = NoTrace]
  /\ UNCHANGED <<stateFile, snapshots, clock, pipelineVars>>

\* time passes
Tick ==
  /\ clock < MaxClock
  /\ clock' = clock + 1
  /\ UNCHANGED <<pc, loc, vars_run, trace, stateFile, snapshots, last, pipelineVars>>

Step(r) ==
  \/ HttpAttemptFails(r)
  \/ HttpAttemptSucceeds(r)
  \/ PlaywrightFetch(r)
  \/ NotifyMissing(r)
  \/ Download(r)
  \/ LoadState(r)
  \/ Detect(r)
  \/ SaveSnapshot(r)
  \/ StateOpen(r)
  \/ StateDump(r)
  \/ NotifyChange(r)
  \/ Crash(r)
  \/ Exit(r)

Next ==
  \/ Tick
  \/ \E r \in Serial : Start(r) \/ Step(r)

Spec == Init /\ [][Next]_vars

----------------------------------------------------------------------------
(* ChangeDetector.detect on its own: every previous state and every buffer *)

Digests == {Sha256(b) : b \in PdfBytes}
Metadatas == {MetadataExtract(b) : b \in PdfBytes} \cup {{<<"/ModDate", "D0">>}}

\* the states detect may be given: the empty dict, the states detect itself
\* makes, and those with another hash or other metadata put in by hand
PrevStates ==
  {EmptyDict} \cup
  { [detect(EmptyDict, b).data EXCEPT !.hash = h, !.metadata = m] :
      b \in PdfBytes,
      h \in {None} \cup {Some(d) : d \in Digests},
      m \in {None} \cup {Some(md) : md \in Metadatas} }

InitDetect ==
  /\ pc = [r \in Runs |-> IF r \in Serial THEN "detecting" ELSE "idle"]
  /\ loc = [r \in Runs |-> LocIdle]
  /\ \E prev_state \in PrevStates, pdf_bytes \in PdfBytes :
       vars_run = [r \in Runs |->
                     IF r \in Serial
                     THEN [NoLocals EXCEPT !.pdf_url = Some(urljoin(FORM_URL, HrefExact)),
                                           !.pdf_bytes = Some(pdf_bytes),
                                           !.prev_state = prev_state]
                     ELSE NoLocals]
  /\ trace = [r \in Runs |-> NoTrace]
  /\ stateFile = NoStateFile
  /\ snapshots = [n \in SnapshotNames |-> NoFolder]
  /\ clock = 0
  /\ last = NoRun
  /\ PipelineIdle

NextDetect == \E r \in Serial : Detect(r)

DetectSpec == InitDetect /\ [][NextDetect]_vars

----------------------------------------------------------------------------
(* PdfLocator._extract_pdf_from_html on its own: find_pdf_url is at the      *)
(* fallback fetcher, which returns any page of up to MaxAnchors anchors      *)

Hrefs == {HrefAbout, HrefExact, HrefCdn, HrefUpper, HrefQuery}
AnchorsOfLen(n) == [1..n -> {None} \cup {Some(h) : h \in Hrefs}]
AnyPages == {Page(anchors) : anchors \in UNION {AnchorsOfLen(n) : n \in 0..MaxAnchors}}

InitLocate ==
  /\ pc = [r \in Runs |-> IF r \in Serial THEN "locating" ELSE "idle"]
  /\ \E page \in AnyPages :
       loc = [r \in Runs |->
                IF r \in Serial THEN [pwPage |-> page, fetcher |-> 2, attempt |-> 1]
                ELSE LocIdle]
  /\ vars_run = [r \in Runs |-> NoLocals]
  /\ trace = [r \in Runs |-> NoTrace]
  /\ stateFile = NoStateFile
  /\ snapshots = [n \in SnapshotNames |-> NoFolder]
  /\ clock = 0
  /\ last = NoRun
  /\ PipelineIdle

NextLocate == \E r \in Serial : PlaywrightFetch(r)

LocateSpec == InitLocate /\ [][NextLocate]_vars

----------------------------------------------------------------------------
(* FieldDiff.diff on its own: every pair of field mappings over three names  *)

FieldNames == {NameOrder[i] : i \in 1..Len(NameOrder)}

\* the records a field named k may have: a text field, the same with its
\* properties stored in the other order, and a button
RecordsOf(k) ==
  << [raw |-> <<<<"/T", k>>, <<"/FT", "/Tx">>>>],
     [raw |-> <<<<"/FT", "/Tx">>, <<"/T", k>>>>],
     [raw |-> <<<<"/T", k>>, <<"/FT", "/Btn">>>>] >>

FieldMaps ==
  UNION { { {<<k, RecordsOf(k)[f[k]]>> : k \in K} : f \in [K -> 1..3] } :
          K \in SUBSET FieldNames }

InitFieldDiff ==
  /\ pc = [r \in Runs |-> IF r \in Serial THEN "diffing" ELSE "idle"]
  /\ loc = [r \in Runs |-> LocIdle]
  /\ \E old \in FieldMaps, new \in FieldMaps :
       vars_run = [r \in Runs |->
                     IF r \in Serial
                     THEN [NoLocals EXCEPT !.prev_state = [EmptyDict EXCEPT !.fields = Some(old)],
                                           !.data = [EmptyDict EXCEPT !.fields = Some(new)]]
                     ELSE NoLocals]
  /\ trace = [r \in Runs |-> NoTrace]
  /\ stateFile = NoStateFile
  /\ snapshots = [n \in SnapshotNames |-> NoFolder]
  /\ clock = 0
  /\ last = NoRun
  /\ PipelineIdle

\* diff_data["field_diff"] = FieldDiff.diff(old_fields, fields)
FieldDiffCall(r) ==
  /\ pc[r] = "diffing"
  /\ vars_run' =
       [vars_run EXCEPT ![r].data.diff =
          Some([text_diff  |-> None,
                field_diff |-> Some(FieldDiff(TheValue(vars_run[r].prev_state.fields),
                                              TheValue(vars_run[r].data.fields)))])]
  /\ pc' = [pc EXCEPT ![r] = "diffed"]
  /\ UNCHANGED <<loc, trace, stateFile, snapshots, clock, last, pipelineVars>>

NextFieldDiff == \E r \in Serial : FieldDiffCall(r)

FieldDiffSpec == InitFieldDiff /\ [][NextFieldDiff]_vars

----------------------------------------------------------------------------
(* The action pipeline of sample_run_1: HandlerPipeline and its handlers *)

\* the longest list of actions execute is called with
MaxActions == 3

\* an action is a dict with an optional "action", "selector" and "value"
Action(kind, selector, value) == [action |-> kind, selector |-> selector, value |-> value]

ActGoto    == Action(Some("goto"), None, Some("https://www.ucr.gov"))
ActWaitFor == Action(Some("wait_for"), Some("input[type=tel]"), None)
ActInput   == Action(Some("input"), Some("input[type=tel]"), Some("64"))
ActClick   == Action(Some("click"), Some("button[aria-label=Submit]"), None)
ActSelect  == Action(Some("select"), Some("select#state"), Some("CA"))
ActScroll  == Action(Some("scroll"), None, Some("bottom"))
\* a kind no handler is written for, and a dict without the "action" key
ActHover   == Action(Some("hover"), Some("a.menu"), None)
ActNoKind  == Action(None, Some("a.menu"), None)

ActionCatalog ==
  {ActGoto, ActWaitFor, ActInput, ActClick, ActSelect, ActScroll, ActHover, ActNoKind}

ActionLists == UNION {[1..n -> ActionCatalog] : n \in 0..MaxActions}

\* ActionHandler.registry: __init_subclass__ appends each handler class when its
\* module is imported, so the order is the order of the imports: here by module
\* name, by module name backwards, and as the kinds come in the example
Registries ==
  { <<"ClickHandler", "GotoHandler", "InputHandler", "ScrollHandler",
      "SelectHandler", "WaitForSelectorHandler">>,
    <<"WaitForSelectorHandler", "SelectHandler", "ScrollHandler", "InputHandler",
      "GotoHandler", "ClickHandler">>,
    <<"GotoHandler", "WaitForSelectorHandler", "InputHandler", "ClickHandler",
      "SelectHandler", "ScrollHandler">> }

\* handler.can_handle(action): action.get("action") == <the kind of the handler>
can_handle(handler, action) ==
  action.action =
    Some(CASE handler = "ClickHandler" -> "click"
           [] handler = "GotoHandler" -> "goto"
           [] handler = "InputHandler" -> "input"
           [] handler = "ScrollHandler" -> "scroll"
           [] handler = "SelectHandler" -> "select"
           [] handler = "WaitForSelectorHandler" -> "wait_for")

\* handle is declared with "async def": calling it makes a coroutine object and
\* runs nothing of its body
IsCoroutineFunction(handler) ==
  handler \in {"ScrollHandler", "SelectHandler", "WaitForSelectorHandler"}

\* the for ... break of execute: the first handler, in the order of the list,
\* whose can_handle is true
FirstHandler(hs, action) ==
  LET able == {k \in 1..Len(hs) : can_handle(hs[k], action)}
  IN  IF able = {} THEN None ELSE Some(hs[SetMin(able)])

\* what handle of a plain handler asks of the driver, and so of the page, for
\* action number i; None when action[key] raises KeyError
Operation(handler, action, i) ==
  CASE handler = "GotoHandler" ->
         IF action.value = None THEN None
         ELSE Some(<<i, "goto", None, action.value>>)
    [] handler = "InputHandler" ->
         IF action.selector = None \/ action.value = None THEN None
         ELSE Some(<<i, "fill", action.selector, action.value>>)
    [] handler = "ClickHandler" ->
         IF action.selector = None THEN None
         ELSE Some(<<i, "click", action.selector, None>>)

\* execute has been called with a list of actions and an open driver
InitPipeline ==
  /\ pc = [r \in Runs |-> "idle"]
  /\ loc = [r \in Runs |-> LocIdle]
  /\ vars_run = [r \in Runs |-> NoLocals]
  /\ trace = [r \in Runs |-> NoTrace]
  /\ stateFile = NoStateFile
  /\ snapshots = [n \in SnapshotNames |-> NoFolder]
  /\ clock = 0
  /\ last = NoRun
  /\ actions \in ActionLists
  /\ handlers \in Registries
  /\ exec = [NoExec EXCEPT !.pc = "running", !.i = 1]
  /\ driver = [open |-> TRUE, ops |-> <<>>]

AtAction == exec.pc = "running" /\ exec.i <= Len(actions)
TheHandler == FirstHandler(handlers, actions[exec.i])
Dispatched(handler) == Append(exec.dispatched, <<exec.i, handler>>)

\* one turn of the loop: a plain handler is found and the page does what it asks
HandleSync ==
  /\ AtAction
  /\ TheHandler # None /\ ~IsCoroutineFunction(TheValue(TheHandler))
  /\ LET op == Operation(TheValue(TheHandler), actions[exec.i], exec.i)
     IN  /\ op # None
         /\ driver' = [driver EXCEPT !.ops = Append(@, TheValue(op))]
  /\ exec' = [exec EXCEPT !.dispatched = Dispatched(TheValue(TheHandler)), !.i = @ + 1]
  /\ UNCHANGED <<pc, loc, vars_run, trace, stateFile, snapshots, clock, last,
                 actions, handlers>>

\* one turn of the loop: a plain handler is found and handle raises, for a key
\* the action has not or for an error of the page (no element, a timeout)
HandleRaises ==
  /\ AtAction
  /\ TheHandler # None /\ ~IsCoroutineFunction(TheValue(TheHandler))
  /\ exec' = [exec EXCEPT !.dispatched = Dispatched(TheValue(TheHandler)), !.pc = "raised"]
  /\ UNCHANGED <<pc, loc, vars_run, trace, stateFile, snapshots, clock, last,
                 actions, handlers, driver>>

\* one turn of the loop: an async handler is found; handler.handle(action, driver)
\* is not awaited, so the coroutine it returns is dropped and never runs
HandleAsync ==
  /\ AtAction
  /\ TheHandler # None /\ IsCoroutineFunction(TheValue(TheHandler))
  /\ exec' = [exec EXCEPT !.dispatched = Dispatched(TheValue(TheHandler)),
                          !.coroutines = Append(@, <<exec.i, TheValue(TheHandler)>>),
                          !.i = @ + 1]
  /\ UNCHANGED <<pc, loc, vars_run, trace, stateFile, snapshots, clock, last,
                 actions, handlers, driver>>

\* a variant that goes on to the next action when no handler is found
NoHandlerSkips ==
  /\ AtAction
  /\ TheHandler = None
  /\ exec' = [exec EXCEPT !.i = @ + 1]
  /\ UNCHANGED <<pc, loc, vars_run, trace, stateFile, snapshots, clock, last,
                 actions, handlers, driver>>
\* one turn of the loop: the else of the inner for raises ValueError
NoHandler ==
  /\ AtAction
  /\ TheHandler = None
  /\ exec' = [exec EXCEPT !.pc = "ValueError"]
  /\ UNCHANGED <<pc, loc, vars_run, trace, stateFile, snapshots, clock, last,
                 actions, handlers, driver>>

\* the list is exhausted and execute returns
ExecuteReturns ==
  /\ exec.pc = "running" /\ exec.i > Len(actions)
  /\ exec' = [exec EXCEPT !.pc = "done"]
  /\ UNCHANGED <<pc, loc, vars_run, trace, stateFile, snapshots, clock, last,
                 actions, handlers, driver>>

\* the finally of the script: driver.close()
Close ==
  /\ exec.pc \in {"done", "ValueError", "raised"}
  /\ driver.open
  /\ driver' = [driver EXCEPT !.open = FALSE]
  /\ UNCHANGED <<pc, loc, vars_run, trace, stateFile, snapshots, clock, last,
                 actions, handlers, exec>>

NextPipeline ==
  \/ HandleSync
  \/ HandleRaises
  \/ HandleAsync
  \/ NoHandler
  \/ ExecuteReturns
  \/ Close

PipelineSpec == InitPipeline /\ [][NextPipeline]_vars

----------------------------------------------------------------------------
(* Two invocations of run with no single-flight guard: each has located the  *)
(* PDF URL and goes through run once, its steps interleaved with the other's *)

\* the state a first invocation that downloaded revision A left behind
Baseline == detect(EmptyDict, 1).data

InitOverlap ==
  /\ pc = [r \in Runs |-> "fetching"]
  /\ loc = [r \in Runs |-> [pwPage |-> AbsentHtml, fetcher |-> 1, attempt |-> 1]]
  /\ vars_run = [r \in Runs |->
                   [NoLocals EXCEPT !.pdf_url = Some(urljoin(FORM_URL, HrefExact))]]
  /\ trace = [r \in Runs |->
                [NoTrace EXCEPT !.calls = << <<"http", "html",
                                             Page(<<Some(HrefAbout), Some(HrefExact)>>)>> >>]]
  /\ \/ /\ stateFile = NoStateFile
        /\ snapshots = [n \in SnapshotNames |-> NoFolder]
     \/ /\ stateFile = WrittenStateFile(Baseline)
        /\ snapshots = save_snapshot([n \in SnapshotNames |-> NoFolder], 0, 1,
                                     TheValue(Baseline.text), TheValue(Baseline.fields),
                                     TheValue(Baseline.metadata))
  /\ clock = 0
  /\ last = NoRun
  /\ PipelineIdle

NextOverlap ==
  \/ Tick
  \/ \E r \in Runs :
       \/ Download(r)
       \/ LoadState(r)
       \/ Detect(r)
       \/ SaveSnapshot(r)
       \/ StateOpen(r)
       \/ StateDump(r)
       \/ NotifyChange(r)

OverlapSpec == InitOverlap /\ [][NextOverlap]_vars

\* invocation r has the result of detect
Detected(r) == vars_run[r].changed # None
Changed(r) == TheValue(vars_run[r].changed)
NewState(r) == vars_run[r].data
ReasonsOf(r) == TheValue(NewState(r).reasons)
Has(seq, x) == \E i \in 1..Len(seq) : seq[i] = x
BytesOf(r) == TheValue(vars_run[r].pdf_bytes)

----------------------------------------------------------------------------
(* Properties of detect, checked under DetectSpec *)

PrevModDate(r) == MapGet(OrDefault(vars_run[r].prev_state.metadata, {}), "/ModDate")
NewModDate(r) == MapGet(DocTable[BytesOf(r)].docinfo, "/ModDate")
ModDateMismatch(r) ==
  PrevModDate(r) # (IF DocTable[BytesOf(r)].pike THEN NewModDate(r) ELSE None)
HashMismatch(r) == vars_run[r].prev_state.hash # Some(<<"sha256", BytesOf(r)>>)
ColdStart(r) == Detected(r) /\ vars_run[r].prev_state = EmptyDict

\* C2, as claimed: on a cold start detect returns changed = true with both
\* "ModDate change" and "hash change" among the reasons, whatever the buffer
C2_ColdStartBothReasons ==
  \A r \in Runs :
    ColdStart(r) =>
      /\ Changed(r)
      /\ Has(ReasonsOf(r), "ModDate change")
      /\ Has(ReasonsOf(r), "hash change")

\* C2, amended: on a cold start detect returns changed = true with "hash change"
\* among the reasons; "ModDate change" is among them exactly when the metadata
\* extracted from the buffer has a /ModDate entry
C2_ColdStartHashReason ==
  \A r \in Runs :
    ColdStart(r) =>
      /\ Changed(r)
      /\ Has(ReasonsOf(r), "hash change")
      /\ Has(ReasonsOf(r), "ModDate change")
           <=> MapGet(TheValue(NewState(r).metadata), "/ModDate") # None

\* a cold start on a buffer whose metadata has no /ModDate: the only reason is the hash
C2_ColdStartNoModDate ==
  \E r \in Runs :
    /\ ColdStart(r)
    /\ MapGet(TheValue(NewState(r).metadata), "/ModDate") = None
    /\ ReasonsOf(r) = <<"hash change">>

\* C6: when the digest of pdf_bytes differs from the previous hash, detect returns
\* changed = true with "hash change" among the reasons and a new state with all
\* six entries, the digest and what the three extractors gave, also when all of
\* them gave their empty result
C6_HashSensitivity ==
  \A r \in Runs :
    (Detected(r) /\ HashMismatch(r)) =>
      /\ Changed(r)
      /\ Has(ReasonsOf(r), "hash change")
      /\ NewState(r).hash = Some(<<"sha256", BytesOf(r)>>)
      /\ NewState(r).metadata = Some(MetadataExtract(BytesOf(r)))
      /\ NewState(r).text = Some(TextExtract(BytesOf(r)))
      /\ NewState(r).fields = Some(FieldExtract(BytesOf(r)))
      /\ NewState(r).reasons # None
      /\ NewState(r).diff # None

\* a previous state with the same ModDate entry (none), another hash, and a buffer
\* on which all three extractors give their empty result
C6_DegradedHashChange ==
  \E r \in Runs :
    /\ Detected(r) /\ HashMismatch(r)
    /\ vars_run[r].prev_state # EmptyDict
    /\ ~DocTable[BytesOf(r)].pike /\ ~DocTable[BytesOf(r)].plumber
    /\ NewState(r).metadata = Some({}) /\ NewState(r).text = Some(<<>>)
    /\ NewState(r).fields = Some({})
    /\ ReasonsOf(r) = <<"hash change">>

\* C7: with the previous hash equal to the digest of pdf_bytes and the previous
\* /ModDate different from the extracted one, detect returns changed = true with
\* reasons = ["ModDate change"]
C7_MetadataOnly ==
  \A r \in Runs :
    (Detected(r) /\ ~HashMismatch(r) /\ ModDateMismatch(r)) =>
      /\ Changed(r)
      /\ ReasonsOf(r) = <<"ModDate change">>

\* the same bytes with another /ModDate in the previous state
C7_SameHashOtherModDate ==
  \E r \in Runs :
    /\ Detected(r) /\ ~HashMismatch(r) /\ ModDateMismatch(r)
    /\ PrevModDate(r) # None /\ NewModDate(r) # None
    /\ Changed(r)

\* C8: each check adds its label exactly when it fires, whatever the other does;
\* changed is true exactly when there is a reason; "ModDate change" comes before
\* "hash change" and no label comes twice
C8_Accumulation ==
  \A r \in Runs :
    Detected(r) =>
      /\ Changed(r) <=> ReasonsOf(r) # <<>>
      /\ Has(ReasonsOf(r), "ModDate change") <=> ModDateMismatch(r)
      /\ Has(ReasonsOf(r), "hash change") <=> HashMismatch(r)
      /\ ReasonsOf(r) \in {<<>>, <<"ModDate change">>, <<"hash change">>,
                           <<"ModDate change", "hash change">>}
      /\ (ModDateMismatch(r) /\ HashMismatch(r))
           => ReasonsOf(r) = <<"ModDate change", "hash change">>

\* the scenario of the specification: ModDate D1 and one field before, ModDate D2
\* and the field "ssn" added after
C8_BothSignals ==
  \E r \in Runs :
    /\ Detected(r)
    /\ vars_run[r].prev_state.hash = Some(<<"sha256", 1>>)
    /\ PrevModDate(r) = Some("D1") /\ NewModDate(r) = Some("D2")
    /\ BytesOf(r) = 2
    /\ ReasonsOf(r) = <<"ModDate change", "hash change">>
    /\ TheValue(TheValue(NewState(r).diff).field_diff).added = <<"ssn">>

\* the text and the fields the diffs are made against
OldText(r) ==
  IF vars_run[r].prev_state.text = None THEN <<>>
  ELSE TheValue(vars_run[r].prev_state.text)
OldFields(r) ==
  IF vars_run[r].prev_state.fields = None THEN {}
  ELSE TheValue(vars_run[r].prev_state.fields)
DiffOf(r) == TheValue(NewState(r).diff)

\* C18: when changed is true the diff of the new state has the text_diff of the
\* previous text (empty if there is none) and the new text and the field_diff of
\* the previous fields (empty if there are none) and the new fields; when changed
\* is false the diff has neither entry
C18_DiffIffChanged ==
  \A r \in Runs :
    Detected(r) =>
      /\ Changed(r) =>
           /\ DiffOf(r).text_diff = Some(TextDiff(OldText(r), TextExtract(BytesOf(r))))
           /\ DiffOf(r).field_diff = Some(FieldDiff(OldFields(r), FieldExtract(BytesOf(r))))
      /\ ~Changed(r) =>
           /\ DiffOf(r).text_diff = None
           /\ DiffOf(r).field_diff = None

\* from a state with two fields and no text to a PDF with text and no fields:
\* both fields are removed and every line of the text is added
C18_DiffAgainstPrevious ==
  \E r \in Runs :
    /\ Detected(r) /\ Changed(r)
    /\ vars_run[r].prev_state.text = Some(<<>>)
    /\ MapKeys(OldFields(r)) = {"name", "ssn"}
    /\ BytesOf(r) = 4
    /\ DiffOf(r).text_diff =
         Some(<<"---", "+++", "@@", <<"+", "Form I-765">>, <<"+", "Edition 01/20/25">>>>)
    /\ TheValue(DiffOf(r).field_diff).removed = <<"name", "ssn">>
    /\ TheValue(DiffOf(r).field_diff).added = <<>>

----------------------------------------------------------------------------
(* Properties of run, checked under Spec *)

\* invocation r has the result of detect for the bytes that the invocation
\* before it, which returned, had the result of detect for
SameBytesAgain(r) ==
  /\ Detected(r)
  /\ last.result = "returned"
  /\ last.changed # None
  /\ last.pdf_bytes = vars_run[r].pdf_bytes

\* C1: the second of two consecutive invocations that download the same bytes
\* gets changed = false, writes no snapshot and no state, and the state file
\* holds what it loaded; the two invocations together write at most one
\* snapshot and one state, and exactly one when the first detected a change
C1_Idempotent ==
  \A r \in Runs :
    SameBytesAgain(r) =>
      /\ Changed(r) = FALSE
      /\ trace[r].snapWrites = 0
      /\ trace[r].stateWrites = 0
      /\ stateFile = [status |-> "ok", content |-> vars_run[r].prev_state]
      /\ last.snapWrites + trace[r].snapWrites <= 1
      /\ last.stateWrites + trace[r].stateWrites <= 1
      /\ last.changed = Some(TRUE) => (last.snapWrites = 1 /\ last.stateWrites = 1)

\* the second invocation has returned and the first one had detected a change
C1_SecondRunSameBytes ==
  \E r \in Runs :
    /\ SameBytesAgain(r)
    /\ pc[r] = "returned"
    /\ last.changed = Some(TRUE)
    /\ last.snapWrites = 1

SnapshotOf(state, folder) ==
  /\ folder.pdf # None
  /\ state.hash = Some(<<"sha256", TheValue(folder.pdf)>>)
  /\ state.text = folder.text
  /\ state.fields = folder.fields
  /\ state.metadata = folder.metadata

\* C3, as claimed: in every reachable state the persisted DocumentState has its
\* snapshot: a folder with the bytes, text, fields and metadata of that state
C3_StateHasSnapshot ==
  stateFile.status = "ok" =>
    \E n \in SnapshotNames : SnapshotOf(stateFile.content, snapshots[n])

Quiet == \A r \in Runs : pc[r] = "idle"

\* C4: after invocations that all completed, the hash of the persisted state is
\* the digest of the bytes of the most recent invocation that reached detection;
\* so it is when such an invocation returns
C4_PersistedHash ==
  /\ (Quiet /\ last.detected # None /\ last.detected # Lost) =>
       /\ stateFile.status = "ok"
       /\ stateFile.content.hash = Some(<<"sha256", TheValue(last.detected)>>)
  /\ \A r \in Runs :
       (pc[r] = "returned" /\ Detected(r) /\ last.detected # Lost) =>
         /\ stateFile.status = "ok"
         /\ stateFile.content.hash = Some(<<"sha256", BytesOf(r)>>)

\* the most recent invocation found no change, after one that found one
C4_UnchangedRunKeepsHash ==
  /\ Quiet
  /\ last.result = "returned"
  /\ last.changed = Some(FALSE)
  /\ last.detected = last.pdf_bytes
  /\ stateFile.content.hash = Some(<<"sha256", TheValue(last.pdf_bytes)>>)

\* C5, as claimed: a snapshot that has been saved is never changed or deleted
C5_SnapshotsImmutable ==
  [][\A n \in SnapshotNames :
       snapshots[n] # NoFolder => snapshots'[n] = snapshots[n]]_vars

\* find_pdf_url of invocation r is over
Located(r) ==
  \/ pc[r] \in {"fetching", "notify_missing"}
  \/ pc[r] = "returned" /\ vars_run[r].pdf_url = None
  \/ pc[r] = "raised" /\ trace[r].downloads = <<>> /\ trace[r].loads = 0

\* C9, as claimed: when find_pdf_url is over without a URL it has returned
\* absent and not raised, and run then returns after exactly one notification,
\* "PDF not found", with no download, load, snapshot write or state write
C9_DiscoveryFailureReported ==
  \A r \in Runs :
    (Located(r) /\ vars_run[r].pdf_url = None) =>
      /\ pc[r] # "raised"
      /\ pc[r] = "returned" =>
           /\ trace[r].notified = << <<"PDF not found">> >>
           /\ trace[r].downloads = <<>>
           /\ trace[r].loads = 0
           /\ trace[r].snapWrites = 0
           /\ trace[r].stateWrites = 0

\* the primary fetcher gave no HTML: every call of it raised or returned ""
PrimaryGaveNoHtml(r) ==
  \A i \in 1..Len(trace[r].calls) :
    trace[r].calls[i][1] = "http" => trace[r].calls[i][2] # "html"

\* C10, as claimed: when the primary fetcher gives no HTML and the fallback
\* returns HTML with a PDF anchor, find_pdf_url calls the fallback after the
\* primary and returns the URL of that anchor
C10_FallbackAfterPrimaryFailure ==
  \A r \in Runs :
    ( /\ Located(r)
      /\ pc[r] # "returned"
      /\ PrimaryGaveNoHtml(r)
      /\ extract_pdf_from_html(loc[r].pwPage, FORM_URL) # None ) =>
        /\ pc[r] = "fetching"
        /\ vars_run[r].pdf_url = extract_pdf_from_html(loc[r].pwPage, FORM_URL)
        /\ trace[r].calls[Len(trace[r].calls)][1] = "playwright"
        /\ trace[r].calls[1][1] = "http"

\* the calls find_pdf_url of invocation r has made, and what the heuristics
\* find in the value call number i returned
Calls(r) == trace[r].calls
ReturnedHtml(r, i) == Calls(r)[i][2] = "html"
MatchIn(r, i) == extract_pdf_from_html(Calls(r)[i][3], FORM_URL)
FetchersInOrder(r) ==
  \A i, j \in 1..Len(Calls(r)) :
    i < j => (Calls(r)[i][1] = "http" /\ (Calls(r)[j][1] = "playwright" => j = Len(Calls(r))))

\* C11, as claimed: the fetchers are called in list order and, once a fetcher
\* has returned HTML, no later call of a fetcher is made, whether or not that
\* HTML has a matching anchor
C11_FirstHtmlDecides ==
  \A r \in Runs :
    /\ FetchersInOrder(r)
    /\ \A i \in 1..Len(Calls(r)) : ReturnedHtml(r, i) => i = Len(Calls(r))

\* C11, amended: the fetchers are called in list order; no later call is made
\* once a fetcher has returned HTML in which the heuristics find an anchor, and
\* the URL found is that of this HTML; when the primary returns HTML in which
\* they find none, the fallback is called before find_pdf_url is over
C11_FirstMatchDecides ==
  \A r \in Runs :
    /\ FetchersInOrder(r)
    /\ \A i \in 1..Len(Calls(r)) :
         /\ (ReturnedHtml(r, i) /\ MatchIn(r, i) # None) =>
              /\ i = Len(Calls(r))
              /\ pc[r] = "fetching"
              /\ vars_run[r].pdf_url = MatchIn(r, i)
         /\ (ReturnedHtml(r, i) /\ MatchIn(r, i) = None
               /\ Calls(r)[i][1] = "http" /\ Located(r)) =>
              /\ i < Len(Calls(r))
              /\ Calls(r)[Len(Calls(r))][1] = "playwright"
    /\ pc[r] = "fetching" =>
         /\ Calls(r) # <<>>
         /\ ReturnedHtml(r, Len(Calls(r)))
         /\ vars_run[r].pdf_url = MatchIn(r, Len(Calls(r)))

\* the primary returned HTML without a PDF anchor and the URL comes from the
\* HTML of the fallback
C11_FallbackAfterAnchorlessHtml ==
  \E r \in Runs :
    /\ pc[r] = "fetching"
    /\ Len(Calls(r)) = 2
    /\ Calls(r)[1][1] = "http" /\ ReturnedHtml(r, 1) /\ MatchIn(r, 1) = None
    /\ Calls(r)[2][1] = "playwright" /\ ReturnedHtml(r, 2)
    /\ vars_run[r].pdf_url = MatchIn(r, 2)

\* the attempts HttpFetcher.fetch of invocation r has made, and its being over
HttpCalls(r) == {i \in 1..Len(Calls(r)) : Calls(r)[i][1] = "http"}
FailedCalls(r) == {i \in HttpCalls(r) : Calls(r)[i][2] = "error"}
FetchOver(r) == pc[r] # "locating" \/ loc[r].fetcher # 1

\* C13: HttpFetcher.fetch makes at most RETRIES attempts; it has slept
\* BACKOFF ^ k after failed attempt number k and before the next one, and not
\* after the last; an attempt that succeeds is the last one and ends the fetch;
\* when RETRIES attempts have failed the fetch is over and its failure has
\* gone up to the caller of run
C13_BoundedRetry ==
  \A r \in Runs :
    (Calls(r) # <<>>) =>
      LET failed == Cardinality(FailedCalls(r))
      IN  /\ Cardinality(HttpCalls(r)) <= RETRIES
          /\ \A i \in HttpCalls(r) :
               Calls(r)[i][2] # "error" =>
                 /\ FetchOver(r)
                 /\ \A j \in HttpCalls(r) : j <= i
                 /\ \A j \in HttpCalls(r) : j < i => j \in FailedCalls(r)
          /\ Len(trace[r].slept) = (IF failed = RETRIES THEN RETRIES - 1 ELSE failed)
          /\ \A k \in 1..Len(trace[r].slept) : trace[r].slept[k] = BACKOFF ^ k
          /\ failed = RETRIES => (pc[r] = "raised" /\ FetchOver(r))
          /\ ~FetchOver(r) => loc[r].attempt = failed + 1

\* every attempt has failed: three attempts, sleeps of 2 and 4 between them
C13_AllAttemptsFail ==
  \E r \in Runs :
    /\ Cardinality(FailedCalls(r)) = RETRIES
    /\ trace[r].slept = <<2, 4>>
    /\ pc[r] = "raised"

\* the download of invocation r was answered by a connection error or by a
\* response with an unsuccessful status
DownloadFailed(r) ==
  trace[r].downloads # <<>> /\ trace[r].downloads[Len(trace[r].downloads)] # "200"

\* C14, as claimed: when the download fails, by a connection error or by an
\* unsuccessful HTTP response, run has made exactly one download attempt, ends
\* with the failure, and does no load, detection, snapshot write, state write
\* or notification
C14_DownloadFailureFatal ==
  \A r \in Runs :
    DownloadFailed(r) =>
      /\ Len(trace[r].downloads) = 1
      /\ pc[r] = "raised"
      /\ trace[r].loads = 0
      /\ ~Detected(r)
      /\ trace[r].snapWrites = 0
      /\ trace[r].stateWrites = 0
      /\ trace[r].notified = <<>>

\* C15: when detect has returned changed = false the invocation has returned,
\* with no snapshot write, no state write and no notification; the state file
\* holds what was loaded and not the state detect made
C15_NoChangeNoWrites ==
  \A r \in Runs :
    (Detected(r) /\ ~Changed(r)) =>
      /\ pc[r] = "returned"
      /\ trace[r].snapWrites = 0
      /\ trace[r].stateWrites = 0
      /\ trace[r].notified = <<>>
      /\ trace[r].posts = <<>>
      /\ vars_run[r].name = None
      /\ stateFile = [status |-> "ok", content |-> vars_run[r].prev_state]
      /\ stateFile.content # NewState(r)

\* an invocation that found revision B unchanged; its new state has no reasons
C15_UnchangedRevisionB ==
  \E r \in Runs :
    /\ Detected(r) /\ ~Changed(r)
    /\ BytesOf(r) = 2
    /\ ReasonsOf(r) = <<>>
    /\ NewState(r).diff = Some(EmptyDiff)
    /\ stateFile.content.reasons # Some(<<>>)

\* the message for the reasons: the label, then the reasons with ", " between
MessageFor(reasons) ==
  IF Len(reasons) = 1 THEN <<"I-765 Updated: ", reasons[1]>>
  ELSE <<"I-765 Updated: ", reasons[1], ", ", reasons[2]>>

\* what invocation r has saved is on the disk
Persisted(r) ==
  /\ trace[r].snapWrites = 1
  /\ trace[r].stateWrites = 1
  /\ stateFile = [status |-> "ok", content |-> NewState(r)]
  /\ vars_run[r].name # None
  /\ SnapshotOf(NewState(r), snapshots[TheValue(vars_run[r].name)])

\* C16: an invocation that has detected a change calls the notifier at most
\* once and, when it has returned, exactly once; at the call the snapshot and
\* the state are written; the message is the label followed by the reasons
\* joined by ", "; whatever the POST does, the invocation returns and the
\* state file and the snapshot hold what was written
C16_NotificationAdvisory ==
  \A r \in Runs :
    (Detected(r) /\ Changed(r)) =>
      /\ Len(trace[r].notified) <= 1
      /\ Len(trace[r].posts) <= Len(trace[r].notified)
      /\ pc[r] = "returned" => Len(trace[r].notified) = 1
      /\ trace[r].notified # <<>> =>
           /\ pc[r] = "returned"
           /\ trace[r].notified[1] = MessageFor(ReasonsOf(r))
           /\ Persisted(r)

\* the webhook POST of a change with both reasons failed
C16_PostFailed ==
  \E r \in Runs :
    /\ Detected(r) /\ Changed(r)
    /\ trace[r].posts = <<"failed">>
    /\ trace[r].notified = << <<"I-765 Updated: ", "ModDate change", ", ", "hash change">> >>
    /\ pc[r] = "returned"
    /\ Persisted(r)

\* the lines of run after save_snapshot at which the state is not yet written:
\* before StateRepository.save is called, and inside it before json.dump is done
BetweenWrites == {Some("state_open"), Some("state_dump")}

\* invocation r has stopped there
StoppedBetweenWrites(r) == pc[r] = "crashed" /\ trace[r].stopped \in BetweenWrites

\* invocation r has downloaded the bytes of the invocation before it, which
\* stopped there, and has called StateRepository.load
NextRunSameBytes(r) ==
  /\ last.result = "crashed"
  /\ last.stopped \in BetweenWrites
  /\ vars_run[r].pdf_bytes = last.pdf_bytes
  /\ trace[r].loads = 1

\* C20, as claimed: when a change-detecting invocation stops after
\* save_snapshot and before the state is written, by a crash or by a failure
\* of the state write, the state file still holds what the invocation loaded;
\* the next invocation, on the same bytes, loads it, detects the change again
\* and, when it returns, has written a snapshot and the state and has notified
C20_ChangeNeverLost ==
  \A r \in Runs :
    /\ StoppedBetweenWrites(r) =>
         /\ stateFile.status # "corrupt"
         /\ stateFile.content = vars_run[r].prev_state
    /\ NextRunSameBytes(r) =>
         /\ pc[r] # "raised"
         /\ Detected(r) => Changed(r)
         /\ pc[r] = "returned" =>
              (Persisted(r) /\ Len(trace[r].notified) = 1)

----------------------------------------------------------------------------
(* Properties of overlapping invocations, checked under OverlapSpec *)

\* invocation p had downloaded before q did: q has the newer bytes
DownloadedBefore(p, q) == p \in trace[q].older
\* ... and p was over by then: the two were serialized
OverBefore(p, q) == DownloadedBefore(p, q) /\ p \notin trace[q].inflight
\* ... and p was not over then: the two overlapped
Overlapped(p, q) == p \in trace[q].inflight
PersistedHashOf(r) ==
  stateFile.status = "ok" /\ stateFile.content.hash = Some(<<"sha256", BytesOf(r)>>)

\* C17: when an invocation that reached detection has returned and every
\* invocation that downloaded before it was over when it downloaded, the state
\* file holds the hash of its bytes; a state file that holds the hash of older
\* bytes after both invocations have returned comes from an overlap only
C17_SerializedKeepsNewest ==
  \A q \in Runs :
    (pc[q] = "returned" /\ Detected(q)) =>
      /\ (\A p \in Runs \ {q} :
            pc[p] = "fetching" \/ OverBefore(p, q)) => PersistedHashOf(q)
      /\ \A p \in Runs \ {q} :
           ( /\ DownloadedBefore(p, q)
             /\ pc[p] = "returned" /\ Detected(p)
             /\ ~PersistedHashOf(q) ) => Overlapped(p, q)

\* the race: p downloaded revision A, then q downloaded revision B while p was
\* running; both found a change and returned, q notified the update, and the
\* state file holds what p saved: the state of revision A
C17_StaleAfterRace ==
  \E p, q \in Runs :
    /\ Overlapped(p, q)
    /\ pc[p] = "returned" /\ pc[q] = "returned"
    /\ Detected(p) /\ Detected(q)
    /\ BytesOf(p) = 1 /\ BytesOf(q) = 2
    /\ Changed(p) /\ Changed(q)
    /\ trace[q].stateWrites = 1 /\ Len(trace[q].notified) = 1
    /\ stateFile = [status |-> "ok", content |-> NewState(p)]
    /\ ~PersistedHashOf(q)

----------------------------------------------------------------------------
(* Properties of FieldDiff.diff, checked under FieldDiffSpec *)

Diffed(r) == pc[r] = "diffed"
OldMap(r) == TheValue(vars_run[r].prev_state.fields)
NewMap(r) == TheValue(vars_run[r].data.fields)
FieldDiffOf(r) == TheValue(TheValue(vars_run[r].data.diff).field_diff)
Elems(seq) == {seq[i] : i \in 1..Len(seq)}
Ascending(seq) == \A i, j \in 1..Len(seq) : i < j => Rank(seq[i]) < Rank(seq[j])
RecordAt(map, k) == CHOOSE rec \in {p[2] : p \in {q \in map : q[1] = k}} : TRUE
\* the two records have the same properties with the same values
SameBag(a, b) ==
  /\ \A i \in 1..Len(a.raw) : \E j \in 1..Len(b.raw) : a.raw[i] = b.raw[j]
  /\ \A j \in 1..Len(b.raw) : \E i \in 1..Len(a.raw) : a.raw[i] = b.raw[j]

\* C19: added is the keys of new that old has not and removed the keys of old
\* that new has not, each in ascending order without repetition; modified has
\* exactly the keys of both whose records do not have the same properties, each
\* with its old and its new record; the three key sets are pairwise disjoint,
\* and all three are empty when old and new are the same mapping
C19_FieldDiffCorrect ==
  \A r \in Runs :
    Diffed(r) =>
      LET d == FieldDiffOf(r)
          oldKeys == {p[1] : p \in OldMap(r)}
          newKeys == {p[1] : p \in NewMap(r)}
          modKeys == {p[1] : p \in d.modified}
      IN  /\ Elems(d.added) = newKeys \ oldKeys
          /\ Elems(d.removed) = oldKeys \ newKeys
          /\ Ascending(d.added) /\ Ascending(d.removed)
          /\ modKeys = {k \in oldKeys \cap newKeys :
                          ~SameBag(RecordAt(OldMap(r), k), RecordAt(NewMap(r), k))}
          /\ \A p \in d.modified :
               p[2] = [old |-> RecordAt(OldMap(r), p[1]), new |-> RecordAt(NewMap(r), p[1])]
          /\ Cardinality(d.modified) = Cardinality(modKeys)
          /\ Elems(d.added) \cap Elems(d.removed) = {}
          /\ Elems(d.added) \cap modKeys = {}
          /\ Elems(d.removed) \cap modKeys = {}
          /\ OldMap(r) = NewMap(r) =>
               (d.added = <<>> /\ d.removed = <<>> /\ d.modified = {})

\* from fields dob and name to fields name and ssn, the properties of name
\* stored in the other order: ssn is added, dob removed and nothing modified
C19_ReorderedNotModified ==
  \E r \in Runs :
    /\ Diffed(r)
    /\ OldMap(r) = {<<"dob", RecordsOf("dob")[1]>>, <<"name", RecordsOf("name")[1]>>}
    /\ NewMap(r) = {<<"name", RecordsOf("name")[2]>>, <<"ssn", RecordsOf("ssn")[3]>>}
    /\ FieldDiffOf(r) = [added |-> <<"ssn">>, removed |-> <<"dob">>, modified |-> {}]

----------------------------------------------------------------------------
(* Properties of _extract_pdf_from_html, checked under LocateSpec *)

\* the heuristics have been applied to the HTML the last call returned
Extracted(r) == Calls(r) # <<>> /\ ReturnedHtml(r, Len(Calls(r)))
HtmlOf(r) == Calls(r)[Len(Calls(r))][3].anchors
ExactAt(r, i) ==
  HtmlOf(r)[i] # None /\ LET href == TheValue(HtmlOf(r)[i])
                        IN  Len(href) > 0 /\ href[Len(href)] = ".pdf"
LooseAt(r, i) ==
  HtmlOf(r)[i] # None /\ \E k \in 1..Len(TheValue(HtmlOf(r)[i])) :
                           TheValue(HtmlOf(r)[i])[k] \in {".pdf", ".PDF"}
ResolvedAt(r, i) == Some(urljoin(FORM_URL, TheValue(HtmlOf(r)[i])))

\* C12: with an anchor whose href ends in ".pdf" the result is the first such
\* anchor in document order, resolved against the base URL, also when an anchor
\* that only contains ".pdf" comes before it; without one the result is the
\* first anchor whose href contains ".pdf" in any case, and absent if none does
C12_ExactSuffixPreferred ==
  \A r \in Runs :
    Extracted(r) =>
      LET n == Len(HtmlOf(r))
          exact == {i \in 1..n : ExactAt(r, i)}
          loose == {i \in 1..n : LooseAt(r, i)}
      IN  /\ \A i \in exact :
               (\A j \in exact : i <= j) => vars_run[r].pdf_url = ResolvedAt(r, i)
          /\ exact = {} =>
               \A i \in loose :
                 (\A j \in loose : i <= j) => vars_run[r].pdf_url = ResolvedAt(r, i)
          /\ loose = {} => vars_run[r].pdf_url = None

\* a page whose first anchor contains ".pdf" in the middle, whose second ends in
\* ".PDF" and whose third ends in ".pdf": the third is the result
C12_LooseBeforeExact ==
  \E r \in Runs :
    /\ Extracted(r)
    /\ HtmlOf(r) = <<Some(HrefQuery), Some(HrefUpper), Some(HrefExact)>>
    /\ vars_run[r].pdf_url = Some(<<"https://www.uscis.gov">> \o HrefExact)

----------------------------------------------------------------------------
(* Properties of HandlerPipeline.execute, checked under PipelineSpec *)

\* some registered handler accepts the action
Accepted(action) == \E k \in 1..Len(handlers) : can_handle(handlers[k], action)
\* the driver has performed the operation of action number n
Performed(n) == \E k \in 1..Len(driver.ops) : driver.ops[k][1] = n

\* C21: the n-th dispatch is that of action n, to the first handler of the
\* registry whose can_handle is true; no action at or after one that no handler
\* accepts is dispatched, execute has raised ValueError exactly at the first
\* such action and has returned only after dispatching all; what the plain
\* handlers of the earlier actions did on the driver stays done, in list order
C21_DispatchInOrder ==
  LET d == exec.dispatched
  IN  /\ \A n \in 1..Len(d) :
           /\ d[n][1] = n
           /\ \E k \in 1..Len(handlers) :
                /\ handlers[k] = d[n][2]
                /\ can_handle(handlers[k], actions[n])
                /\ \A j \in 1..(k - 1) : ~can_handle(handlers[j], actions[n])
           /\ (~IsCoroutineFunction(d[n][2]) /\ (n < Len(d) \/ exec.pc # "raised"))
                => Performed(n)
      /\ \A n \in 1..Len(actions) : ~Accepted(actions[n]) => Len(d) < n
      /\ exec.pc = "ValueError" =>
           (Len(d) < Len(actions) /\ ~Accepted(actions[Len(d) + 1]))
      /\ (exec.pc = "running" /\ exec.i <= Len(actions)) => exec.i = Len(d) + 1
      /\ exec.pc = "done" => Len(d) = Len(actions)
      /\ \A j, k \in 1..Len(driver.ops) : j < k => driver.ops[j][1] < driver.ops[k][1]

\* goto, then an action of a kind without handler, then a click: the goto is
\* done, ValueError is raised, the click is never dispatched
C21_ValueErrorAtSecond ==
  /\ actions = <<ActGoto, ActHover, ActClick>>
  /\ exec.pc = "ValueError"
  /\ exec.dispatched = << <<1, "GotoHandler">> >>
  /\ driver.ops = << <<1, "goto", None, Some("https://www.ucr.gov")>> >>
  /\ ~driver.open

\* C22, as claimed: when the next action is dispatched, the driver has
\* performed the operation of the action before it, whatever its kind; so a
\* wait_for has waited before the input or click after it is issued
C22_OperationBeforeNext ==
  \A n \in 1..Len(exec.dispatched) :
    n < Len(exec.dispatched) => Performed(n)

====
